---- MODULE Spec2Model ----
(***************************************************************************)
(* Model of the in-memory cache layer of apps/web/src/lib/cache.ts:        *)
(* SmartCache (a bounded Map with per-entry TTL, access bookkeeping and    *)
(* an lru / lfu / ttl eviction policy) and CachedQuery.getWithCache (the   *)
(* cache-aside wrapper around an asynchronous loader).                     *)
(*                                                                         *)
(* The backing store is a JavaScript Map: it iterates in insertion order   *)
(* and overwriting a key keeps the key's position.  It is modelled as a    *)
(* sequence of entries, at most one per key.                               *)
(***************************************************************************)
EXTENDS Integers, Sequences, FiniteSets, TLC

VARIABLES config, cache, stats, now, task, loaderCalls, pc, obs, caches, heap

vars == <<config, cache, stats, now, task, loaderCalls, pc, obs, caches, heap>>

(***************************************************************************)
(* Bounds of the model.                                                    *)
(***************************************************************************)
\* largest maxSize a cache is constructed with (0 .. MaxCap)
MaxCap == 2
\* last reading of the clock
MaxTime == 2
\* cap on stats.sets
MaxSets == 3
\* cap on stats.hits + stats.misses
MaxLookups == 1
\* cap on the loader invocations of one key
MaxLoads == 2
\* cap on stats.hits + stats.misses in the cache-aside specification
MaxQueryLookups == 3
\* last reading of the clock in the scenario specification
ScenarioMaxTime == 4

(***************************************************************************)
(* Values of the program.                                                  *)
(***************************************************************************)
\* JavaScript's Infinity: above every clock reading and every finite ttl
Infinity == 1000
\* the defaultTtl of the modelled configuration
DefaultTtl == 1

Keys == {"a", "b", "c"}
\* the empty string the find* methods start from; it is no key of the model
NoKey == ""
\* JavaScript's null: what get returns for an absent key, and a possible payload
Null == "null"
\* the payloads the loaders resolve to
Values == {"v1", "v2", Null}
\* the payloads the direct set calls store
SetValues == {"v1", Null}
\* the ttl argument left out (undefined)
NoTtl == -1
TtlArgs == {NoTtl, 0, Infinity}
Policies == {"lru", "lfu", "ttl"}
Void == "void"

\* timestamp + ttl in IEEE arithmetic: anything plus Infinity is Infinity
Plus(a, b) == IF a >= Infinity \/ b >= Infinity THEN Infinity ELSE a + b

(***************************************************************************)
(* The Map operations the cache uses.                                      *)
(***************************************************************************)
MapHas(c, k) == \E i \in 1..Len(c) : c[i].key = k

MapIndex(c, k) == CHOOSE i \in 1..Len(c) : c[i].key = k

MapGet(c, k) == c[MapIndex(c, k)]

MapSet(c, k, e) ==
    IF MapHas(c, k) THEN [c EXCEPT ![MapIndex(c, k)] = e] ELSE Append(c, e)

MapDelete(c, k) == SelectSeq(c, LAMBDA e : e.key # k)

MapKeys(c) == {c[i].key : i \in 1..Len(c)}

(***************************************************************************)
(* SmartCache: private helpers.                                            *)
(***************************************************************************)
isExpired(entry, t) == t - entry.timestamp > entry.ttl

updateHitRate(st) ==
    LET total == st.hits + st.misses
    IN  [st EXCEPT !.hitRate = IF total > 0 THEN <<st.hits, total>> ELSE <<0, 1>>]

\* The loop shared by the three find* methods: the key of the first entry
\* whose metric is strictly below every metric before it, '' when no
\* metric is below Infinity.
RECURSIVE ScanLeast(_, _, _, _, _)
ScanLeast(c, metric, i, bestKey, best) ==
    IF i > Len(c) THEN bestKey
    ELSE IF metric[i] < best
         THEN ScanLeast(c, metric, i + 1, c[i].key, metric[i])
         ELSE ScanLeast(c, metric, i + 1, bestKey, best)

findLeastRecentlyUsed(c) ==
    ScanLeast(c, [i \in 1..Len(c) |-> c[i].lastAccessed], 1, NoKey, Infinity)

findLeastFrequentlyUsed(c) ==
    ScanLeast(c, [i \in 1..Len(c) |-> c[i].accessCount], 1, NoKey, Infinity)

findNearestExpiry(c) ==
    ScanLeast(c, [i \in 1..Len(c) |-> Plus(c[i].timestamp, c[i].ttl)], 1, NoKey, Infinity)

evictEntry(cfg, c, st) ==
    IF Len(c) = 0 THEN [cache |-> c, stats |-> st]
    ELSE LET keyToEvict ==
                 CASE cfg.evictionPolicy = "lru" -> findLeastRecentlyUsed(c)
                   [] cfg.evictionPolicy = "lfu" -> findLeastFrequentlyUsed(c)
                   [] cfg.evictionPolicy = "ttl" -> findNearestExpiry(c)
                   [] OTHER -> c[1].key
             c2 == MapDelete(c, keyToEvict)
         IN  [cache |-> c2,
              stats |-> [st EXCEPT !.evictions = @ + 1, !.totalSize = Len(c2)]]

(***************************************************************************)
(* SmartCache: the public operations, as functions of the cache state.     *)
(* Each returns the new store, the new stats and the returned value.       *)
(***************************************************************************)
\* get, were the purge of an expired entry not counted as an eviction
getPurgeUncounted(c, st, key, t) ==
    IF ~MapHas(c, key)
    THEN [cache |-> c, stats |-> updateHitRate([st EXCEPT !.misses = @ + 1]), ret |-> Null]
    ELSE LET entry == MapGet(c, key)
         IN  IF isExpired(entry, t)
             THEN [cache |-> MapDelete(c, key),
                   stats |-> updateHitRate([st EXCEPT !.misses = @ + 1]),
                   ret   |-> Null]
             ELSE [cache |-> MapSet(c, key, [entry EXCEPT !.accessCount = @ + 1,
                                                          !.lastAccessed = t]),
                   stats |-> updateHitRate([st EXCEPT !.hits = @ + 1]),
                   ret   |-> entry.data]

\* get, were the hit rate not recomputed after a hit
getHitRateStale(c, st, key, t) ==
    IF ~MapHas(c, key)
    THEN [cache |-> c, stats |-> updateHitRate([st EXCEPT !.misses = @ + 1]), ret |-> Null]
    ELSE LET entry == MapGet(c, key)
         IN  IF isExpired(entry, t)
             THEN [cache |-> MapDelete(c, key),
                   stats |-> updateHitRate([st EXCEPT !.misses = @ + 1,
                                                      !.evictions = @ + 1]),
                   ret   |-> Null]
             ELSE [cache |-> MapSet(c, key, [entry EXCEPT !.accessCount = @ + 1,
                                                          !.lastAccessed = t]),
                   stats |-> [st EXCEPT !.hits = @ + 1],
                   ret   |-> entry.data]

get(c, st, key, t) ==
    IF ~MapHas(c, key)
    THEN [cache |-> c, stats |-> updateHitRate([st EXCEPT !.misses = @ + 1]), ret |-> Null]
    ELSE LET entry == MapGet(c, key)
         IN  IF isExpired(entry, t)
             THEN [cache |-> MapDelete(c, key),
                   stats |-> updateHitRate([st EXCEPT !.misses = @ + 1,
                                                      !.evictions = @ + 1]),
                   ret   |-> Null]
             ELSE [cache |-> MapSet(c, key, [entry EXCEPT !.accessCount = @ + 1,
                                                          !.lastAccessed = t]),
                   stats |-> updateHitRate([st EXCEPT !.hits = @ + 1]),
                   ret   |-> entry.data]

\* set, were the eviction run after the insertion, on the store that
\* already holds the new entry
setEvictAfterInsert(cfg, c, st, key, value, ttl, t) ==
    LET entryTtl == IF ttl = NoTtl \/ ttl = 0 THEN cfg.defaultTtl ELSE ttl
        entry == [key |-> key, data |-> value, timestamp |-> t, ttl |-> entryTtl,
                  accessCount |-> 1, lastAccessed |-> t]
        c1 == MapSet(c, key, entry)
        ev == IF Len(c1) > cfg.maxSize
              THEN evictEntry(cfg, c1, st)
              ELSE [cache |-> c1, stats |-> st]
    IN  [cache |-> ev.cache,
         stats |-> [ev.stats EXCEPT !.sets = @ + 1, !.totalSize = Len(ev.cache)],
         ret   |-> Void]

\* set, were the capacity check made without the test that the key is new
setAnyAtCapacityEvicts(cfg, c, st, key, value, ttl, t) ==
    LET entryTtl == IF ttl = NoTtl \/ ttl = 0 THEN cfg.defaultTtl ELSE ttl
        ev == IF Len(c) >= cfg.maxSize
              THEN evictEntry(cfg, c, st)
              ELSE [cache |-> c, stats |-> st]
        entry == [key |-> key, data |-> value, timestamp |-> t, ttl |-> entryTtl,
                  accessCount |-> 1, lastAccessed |-> t]
        c2 == MapSet(ev.cache, key, entry)
    IN  [cache |-> c2,
         stats |-> [ev.stats EXCEPT !.sets = @ + 1, !.totalSize = Len(c2)],
         ret   |-> Void]

set(cfg, c, st, key, value, ttl, t) ==
    LET entryTtl == IF ttl = NoTtl \/ ttl = 0 THEN cfg.defaultTtl ELSE ttl
        ev == IF Len(c) >= cfg.maxSize /\ ~MapHas(c, key)
              THEN evictEntry(cfg, c, st)
              ELSE [cache |-> c, stats |-> st]
        entry == [key |-> key, data |-> value, timestamp |-> t, ttl |-> entryTtl,
                  accessCount |-> 1, lastAccessed |-> t]
        c2 == MapSet(ev.cache, key, entry)
    IN  [cache |-> c2,
         stats |-> [ev.stats EXCEPT !.sets = @ + 1, !.totalSize = Len(c2)],
         ret   |-> Void]

\* delete, were the delete recorded whether or not the key was stored
deleteCountsAlways(c, st, key) ==
    LET deleted == MapHas(c, key)
        c2 == MapDelete(c, key)
    IN  [cache |-> c2,
         stats |-> [st EXCEPT !.deletes = @ + 1, !.totalSize = Len(c2)],
         ret   |-> deleted]

delete(c, st, key) ==
    LET deleted == MapHas(c, key)
        c2 == MapDelete(c, key)
    IN  [cache |-> c2,
         stats |-> IF deleted
                   THEN [st EXCEPT !.deletes = @ + 1, !.totalSize = Len(c2)]
                   ELSE st,
         ret   |-> deleted]

\* has, were it written as get(key) !== null
hasViaGet(c, st, key, t) ==
    LET g == get(c, st, key, t)
    IN  [cache |-> g.cache, stats |-> g.stats, ret |-> g.ret # Null]

has(c, st, key, t) ==
    IF ~MapHas(c, key) THEN [cache |-> c, stats |-> st, ret |-> FALSE]
    ELSE IF isExpired(MapGet(c, key), t)
         THEN [cache |-> MapDelete(c, key), stats |-> st, ret |-> FALSE]
         ELSE [cache |-> c, stats |-> st, ret |-> TRUE]

\* clear, were the cumulative counters reset with the store
clearResetsCounters(c, st) ==
    [cache |-> <<>>,
     stats |-> [hits |-> 0, misses |-> 0, sets |-> 0, deletes |-> 0, evictions |-> 0,
                totalSize |-> 0, hitRate |-> <<0, 1>>],
     ret   |-> Void]

clear(c, st) ==
    [cache |-> <<>>, stats |-> [st EXCEPT !.totalSize = 0], ret |-> Void]

size(c) == Len(c)

\* cleanup, were the expired entries found and left in the store
cleanupKeepsEntries(c, st, t) ==
    [cache |-> c, stats |-> [st EXCEPT !.totalSize = Len(c)], ret |-> Void]

\* cleanup, were an entry whose age equals its ttl swept as well
cleanupAtTtl(c, st, t) ==
    LET expiredKeys == {c[i].key : i \in {j \in 1..Len(c) : t - c[j].timestamp >= c[j].ttl}}
        c2 == SelectSeq(c, LAMBDA e : e.key \notin expiredKeys)
    IN  [cache |-> c2,
         stats |-> [st EXCEPT !.evictions = @ + Cardinality(expiredKeys),
                              !.totalSize = Len(c2)],
         ret   |-> Void]

cleanup(c, st, t) ==
    LET expiredKeys == {c[i].key : i \in {j \in 1..Len(c) : t - c[j].timestamp > c[j].ttl}}
        c2 == SelectSeq(c, LAMBDA e : e.key \notin expiredKeys)
    IN  [cache |-> c2,
         stats |-> [st EXCEPT !.evictions = @ + Cardinality(expiredKeys),
                              !.totalSize = Len(c2)],
         ret   |-> Void]

(***************************************************************************)
(* State after construction.                                               *)
(***************************************************************************)
InitStats ==
    [hits |-> 0, misses |-> 0, sets |-> 0, deletes |-> 0, evictions |-> 0,
     totalSize |-> 0, hitRate |-> <<0, 1>>]

\* the names CacheManager registers caches under
Names == {"products", "sessions"}
\* no SmartCache registered under a name (Map.get gives undefined)
NoCache == 0
\* CacheManager.caches before any getCache: the empty Map
NoCaches == [n \in Names |-> NoCache]

Procs == {"p1", "p2"}

IdleTask == [pc |-> "idle", key |-> NoKey, ttl |-> NoTtl, ret |-> Void]

Configs ==
    [maxSize : 0..MaxCap, defaultTtl : {DefaultTtl}, evictionPolicy : Policies]

Init ==
    /\ config \in Configs
    /\ cache = <<>>
    /\ stats = InitStats
    /\ now = 0
    /\ task = [p \in Procs |-> IdleTask]
    /\ loaderCalls = [k \in Keys |-> 0]
    /\ pc = 0
    /\ obs = <<>>
    /\ caches = NoCaches
    /\ heap = <<>>

(***************************************************************************)
(* The callers' steps on one SmartCache.                                   *)
(***************************************************************************)
Apply(r) ==
    /\ cache' = r.cache
    /\ stats' = r.stats

Get(k) ==
    /\ stats.hits + stats.misses < MaxLookups
    /\ Apply(get(cache, stats, k, now))
    /\ UNCHANGED <<config, now, task, loaderCalls, pc, obs, caches, heap>>

Set(k, v, ttl) ==
    /\ stats.sets < MaxSets
    /\ Apply(set(config, cache, stats, k, v, ttl, now))
    /\ UNCHANGED <<config, now, task, loaderCalls, pc, obs, caches, heap>>

Delete(k) ==
    /\ Apply(delete(cache, stats, k))
    /\ UNCHANGED <<config, now, task, loaderCalls, pc, obs, caches, heap>>

Has(k) ==
    /\ Apply(has(cache, stats, k, now))
    /\ UNCHANGED <<config, now, task, loaderCalls, pc, obs, caches, heap>>

Clear ==
    /\ Apply(clear(cache, stats))
    /\ UNCHANGED <<config, now, task, loaderCalls, pc, obs, caches, heap>>

\* one firing of the setInterval callback of startCleanup
Cleanup ==
    /\ Apply(cleanup(cache, stats, now))
    /\ UNCHANGED <<config, now, task, loaderCalls, pc, obs, caches, heap>>

\* the clock that Date.now() reads moves on
Tick ==
    /\ now < MaxTime
    /\ now' = now + 1
    /\ UNCHANGED <<config, cache, stats, task, loaderCalls, pc, obs, caches, heap>>

Next ==
    \/ \E k \in Keys : Get(k)
    \/ \E k \in Keys, v \in SetValues, ttl \in TtlArgs : Set(k, v, ttl)
    \/ \E k \in Keys : Delete(k)
    \/ \E k \in Keys : Has(k)
    \/ Clear
    \/ Cleanup
    \/ Tick

Spec == Init /\ [][Next]_vars

(***************************************************************************)
(* Scenario A of the specification, on a cache built like                  *)
(* CacheManager.getCache(name, {maxSize: 2}): lru, defaultTtl 5 minutes.   *)
(* The script runs set(a,1), set(b,2), get(a), set(c,3) and then reads     *)
(* a, b and c; the clock may move on between any two calls, and never far  *)
(* enough for an entry to expire.                                          *)
(***************************************************************************)
FiveMinutes == 300000

ScenarioConfig == [maxSize |-> 2, defaultTtl |-> FiveMinutes, evictionPolicy |-> "lru"]

ScenarioScript ==
    << [op |-> "set", key |-> "a", value |-> "1"],
       [op |-> "set", key |-> "b", value |-> "2"],
       [op |-> "get", key |-> "a", value |-> Void],
       [op |-> "set", key |-> "c", value |-> "3"],
       [op |-> "read", key |-> "a", value |-> Void],
       [op |-> "read", key |-> "b", value |-> Void],
       [op |-> "read", key |-> "c", value |-> Void] >>

ScenarioInit ==
    /\ config = ScenarioConfig
    /\ cache = <<>>
    /\ stats = InitStats
    /\ now = 0
    /\ task = [p \in Procs |-> IdleTask]
    /\ loaderCalls = [k \in Keys |-> 0]
    /\ pc = 1
    /\ obs = <<>>
    /\ caches = NoCaches
    /\ heap = <<>>

ScenarioSet ==
    /\ pc <= Len(ScenarioScript)
    /\ ScenarioScript[pc].op = "set"
    /\ Apply(set(config, cache, stats, ScenarioScript[pc].key,
                 ScenarioScript[pc].value, NoTtl, now))
    /\ pc' = pc + 1
    /\ UNCHANGED <<config, now, task, loaderCalls, obs, caches, heap>>

ScenarioGet ==
    /\ pc <= Len(ScenarioScript)
    /\ ScenarioScript[pc].op \in {"get", "read"}
    /\ LET r == get(cache, stats, ScenarioScript[pc].key, now)
       IN  /\ Apply(r)
           /\ obs' = IF ScenarioScript[pc].op = "read" THEN Append(obs, r.ret) ELSE obs
    /\ pc' = pc + 1
    /\ UNCHANGED <<config, now, task, loaderCalls, caches, heap>>

ScenarioTick ==
    /\ now < ScenarioMaxTime
    /\ now' = now + 1
    /\ UNCHANGED <<config, cache, stats, task, loaderCalls, pc, obs, caches, heap>>

ScenarioNext == ScenarioSet \/ ScenarioGet \/ ScenarioTick

SpecScenario == ScenarioInit /\ [][ScenarioNext]_vars

(***************************************************************************)
(* CachedQuery.getWithCache.  The call runs synchronously up to the await  *)
(* of the loader; the rest runs when the loader settles.  Other calls and  *)
(* steps may run in between.                                               *)
(***************************************************************************)
Errors == {"e1", "e2"}
\* the keys and ttl arguments of the getWithCache calls
QueryKeys == {"a", "b"}
QueryTtls == {NoTtl, Infinity}
\* a cache built like ProductCache (lfu), with the capacity of the model
QueryConfig == [maxSize |-> MaxCap, defaultTtl |-> DefaultTtl, evictionPolicy |-> "lfu"]

\* lines 397-403: the lookup, and on a null result the loader is invoked
getWithCacheCall(c, st, calls, key, t) ==
    LET g == get(c, st, key, t)
    IN  IF g.ret # Null
        THEN [cache |-> g.cache, stats |-> g.stats, loaderCalls |-> calls,
              pc |-> "returned", ret |-> g.ret]
        ELSE [cache |-> g.cache, stats |-> g.stats,
              loaderCalls |-> [calls EXCEPT ![key] = @ + 1],
              pc |-> "loading", ret |-> Void]

\* the resolution, were a result stored only under a key that is not stored
getWithCacheResolveKeepFirst(cfg, c, st, key, result, ttl, t) ==
    LET s == IF MapHas(c, key) THEN [cache |-> c, stats |-> st]
             ELSE set(cfg, c, st, key, result, ttl, t)
    IN  [cache |-> s.cache, stats |-> s.stats, pc |-> "returned", ret |-> result]

\* lines 403-408: the loader resolved to result
getWithCacheResolve(cfg, c, st, key, result, ttl, t) ==
    LET s == set(cfg, c, st, key, result, ttl, t)
    IN  [cache |-> s.cache, stats |-> s.stats, pc |-> "returned", ret |-> result]

\* the rejection, were the failure cached as a null entry
getWithCacheRejectCachesNull(cfg, c, st, key, ttl, error, t) ==
    LET s == set(cfg, c, st, key, Null, ttl, t)
    IN  [cache |-> s.cache, stats |-> s.stats, pc |-> "rejected", ret |-> error]

\* line 403: the loader rejected with error, which the await rethrows
getWithCacheReject(cfg, c, st, key, ttl, error, t) ==
    [cache |-> c, stats |-> st, pc |-> "rejected", ret |-> error]

Loading(k) == {p \in Procs : task[p].pc = "loading" /\ task[p].key = k}

QueryInit ==
    /\ config = QueryConfig
    /\ cache = <<>>
    /\ stats = InitStats
    /\ now = 0
    /\ task = [p \in Procs |-> IdleTask]
    /\ loaderCalls = [k \in Keys |-> 0]
    /\ pc = 0
    /\ obs = <<>>
    /\ caches = NoCaches
    /\ heap = <<>>

Call(p, k, ttl) ==
    /\ task[p].pc # "loading"
    /\ stats.hits + stats.misses < MaxQueryLookups
    /\ loaderCalls[k] < MaxLoads
    /\ LET r == getWithCacheCall(cache, stats, loaderCalls, k, now)
       IN  /\ Apply(r)
           /\ loaderCalls' = r.loaderCalls
           /\ task' = [task EXCEPT ![p] = [pc |-> r.pc, key |-> k, ttl |-> ttl,
                                           ret |-> r.ret]]
    /\ UNCHANGED <<config, now, pc, obs, caches, heap>>

LoaderResolve(p, v) ==
    /\ task[p].pc = "loading"
    /\ LET r == getWithCacheResolve(config, cache, stats, task[p].key, v,
                                    task[p].ttl, now)
       IN  /\ Apply(r)
           /\ task' = [task EXCEPT ![p].pc = r.pc, ![p].ret = r.ret]
    /\ UNCHANGED <<config, now, loaderCalls, pc, obs, caches, heap>>

LoaderReject(p, e) ==
    /\ task[p].pc = "loading"
    /\ LET r == getWithCacheReject(config, cache, stats, task[p].key, task[p].ttl, e, now)
       IN  /\ Apply(r)
           /\ task' = [task EXCEPT ![p].pc = r.pc, ![p].ret = r.ret]
    /\ UNCHANGED <<config, now, loaderCalls, pc, obs, caches, heap>>

QueryNext ==
    \/ \E p \in Procs, k \in QueryKeys, ttl \in QueryTtls : Call(p, k, ttl)
    \/ \E p \in Procs, v \in Values : LoaderResolve(p, v)
    \/ \E p \in Procs, e \in Errors : LoaderReject(p, e)
    \/ \E k \in QueryKeys : Delete(k)
    \/ Tick

SpecQuery == QueryInit /\ [][QueryNext]_vars

(***************************************************************************)
(* CachedQuery.invalidatePattern.  Keys are JavaScript strings; Text gives *)
(* the characters of the strings the model uses, and includes is           *)
(* String.prototype.includes on them.                                      *)
(***************************************************************************)
PatternKeys == {"product:1", "product:2", "customer:9", "list:product"}
Patterns == {"product", "customer:9", "list", "9", ""}

Text(str) ==
    CASE str = "product:1" -> <<"p", "r", "o", "d", "u", "c", "t", ":", "1">>
      [] str = "product:2" -> <<"p", "r", "o", "d", "u", "c", "t", ":", "2">>
      [] str = "customer:9" -> <<"c", "u", "s", "t", "o", "m", "e", "r", ":", "9">>
      [] str = "list:product" -> <<"l", "i", "s", "t", ":", "p", "r", "o", "d", "u", "c", "t">>
      [] str = "product" -> <<"p", "r", "o", "d", "u", "c", "t">>
      [] str = "list" -> <<"l", "i", "s", "t">>
      [] str = "9" -> <<"9">>
      [] str = "" -> <<>>
      [] str = "product:" -> <<"p", "r", "o", "d", "u", "c", "t", ":">>
      [] str = "customer:" -> <<"c", "u", "s", "t", "o", "m", "e", "r", ":">>
      [] str = "order:" -> <<"o", "r", "d", "e", "r", ":">>
      [] str = "1" -> <<"1">>
      [] str = "2" -> <<"2">>
      [] str = "12" -> <<"1", "2">>
      [] str = "7" -> <<"7">>
      [] str = "search:product" -> <<"s", "e", "a", "r", "c", "h", ":", "p", "r", "o", "d", "u", "c", "t">>
      [] str = "search:shoes" -> <<"s", "e", "a", "r", "c", "h", ":", "s", "h", "o", "e", "s">>
      [] str = "customer:1" -> <<"c", "u", "s", "t", "o", "m", "e", "r", ":", "1">>
      [] str = "customer:12" -> <<"c", "u", "s", "t", "o", "m", "e", "r", ":", "1", "2">>
      [] str = "orders:customer:1" -> <<"o", "r", "d", "e", "r", "s", ":", "c", "u", "s", "t", "o", "m", "e", "r", ":", "1">>
      [] str = "orders:customer:12" -> <<"o", "r", "d", "e", "r", "s", ":", "c", "u", "s", "t", "o", "m", "e", "r", ":", "1", "2">>
      [] str = "order:7" -> <<"o", "r", "d", "e", "r", ":", "7">>

includes(str, pattern) ==
    LET s == Text(str)
        p == Text(pattern)
    IN  \E i \in 0..(Len(s) - Len(p)) : SubSeq(s, i + 1, i + Len(p)) = p

\* SmartCache.keys: the stored keys, in the order of the Map
keys(c) == [i \in 1..Len(c) |-> c[i].key]

\* the loop, were the test key.startsWith(pattern)
RECURSIVE invalidateLoopPrefix(_, _, _, _, _, _)
invalidateLoopPrefix(ks, i, c, st, pattern, invalidated) ==
    IF i > Len(ks) THEN [cache |-> c, stats |-> st, ret |-> invalidated]
    ELSE IF Len(Text(pattern)) <= Len(Text(ks[i]))
            /\ SubSeq(Text(ks[i]), 1, Len(Text(pattern))) = Text(pattern)
         THEN LET d == delete(c, st, ks[i])
              IN  invalidateLoopPrefix(ks, i + 1, d.cache, d.stats, pattern, invalidated + 1)
         ELSE invalidateLoopPrefix(ks, i + 1, c, st, pattern, invalidated)

\* lines 418-423: the loop over the keys taken before the first delete
RECURSIVE invalidateLoop(_, _, _, _, _, _)
invalidateLoop(ks, i, c, st, pattern, invalidated) ==
    IF i > Len(ks) THEN [cache |-> c, stats |-> st, ret |-> invalidated]
    ELSE IF includes(ks[i], pattern)
         THEN LET d == delete(c, st, ks[i])
              IN  invalidateLoop(ks, i + 1, d.cache, d.stats, pattern, invalidated + 1)
         ELSE invalidateLoop(ks, i + 1, c, st, pattern, invalidated)

invalidatePattern(c, st, pattern) == invalidateLoop(keys(c), 1, c, st, pattern, 0)

\* a cache that holds every key of the model without evicting
PatternConfig == [maxSize |-> MaxSets, defaultTtl |-> DefaultTtl, evictionPolicy |-> "lfu"]

PatternInit ==
    /\ config = PatternConfig
    /\ cache = <<>>
    /\ stats = InitStats
    /\ now = 0
    /\ task = [p \in Procs |-> IdleTask]
    /\ loaderCalls = [k \in Keys |-> 0]
    /\ pc = 0
    /\ obs = <<>>
    /\ caches = NoCaches
    /\ heap = <<>>

PatternSet(k, v) ==
    /\ stats.sets < MaxSets
    /\ Apply(set(config, cache, stats, k, v, NoTtl, now))
    /\ UNCHANGED <<config, now, task, loaderCalls, pc, obs, caches, heap>>

PatternGet(k) ==
    /\ stats.hits + stats.misses < MaxLookups
    /\ Apply(get(cache, stats, k, now))
    /\ UNCHANGED <<config, now, task, loaderCalls, pc, obs, caches, heap>>

\* obs keeps the count the call returned
InvalidatePattern(pattern) ==
    /\ LET r == invalidatePattern(cache, stats, pattern)
       IN  /\ Apply(r)
           /\ obs' = <<r.ret>>
    /\ UNCHANGED <<config, now, task, loaderCalls, pc, caches, heap>>

PatternNext ==
    \/ \E k \in PatternKeys, v \in SetValues : PatternSet(k, v)
    \/ \E k \in PatternKeys : PatternGet(k)
    \/ \E pattern \in Patterns : InvalidatePattern(pattern)
    \/ Tick

SpecPattern == PatternInit /\ [][PatternNext]_vars

(***************************************************************************)
(* CacheManager: the registry of named SmartCache instances.  heap holds   *)
(* every SmartCache constructed so far, an instance's identity is its      *)
(* index in heap, and caches maps a name to the identity registered under  *)
(* it.  An instance carries its cleanup timer; destroyed records that      *)
(* destroy() has returned on it.                                           *)
(***************************************************************************)
MaxInstances == 3
MaxRegSets == 2

ProductMaxSize == 500
TenMinutes == 600000
OneMinute == 60000
DefaultMaxSize == 1000

ConfigFields == {"maxSize", "defaultTtl", "cleanupInterval", "evictionPolicy"}

\* getCache called without a config: the spread of undefined adds no field
NoConfig == [f \in {} |-> 0]

\* the Partial<CacheConfig> arguments of getCache
PartialConfigs ==
    {NoConfig,
     [maxSize |-> 1],
     [defaultTtl |-> 1, evictionPolicy |-> "ttl"]}

defaultConfig ==
    [maxSize |-> DefaultMaxSize, defaultTtl |-> FiveMinutes,
     cleanupInterval |-> OneMinute, evictionPolicy |-> "lru"]

\* { ...defaultConfig, ...config }
mergedConfig(cfg) ==
    [f \in ConfigFields |-> IF f \in DOMAIN cfg THEN cfg[f] ELSE defaultConfig[f]]

\* the config argument of the module-level getCache('products', ...)
ProductConfig ==
    [maxSize |-> ProductMaxSize, defaultTtl |-> TenMinutes, evictionPolicy |-> "lfu"]

\* new SmartCache(config): empty store, zero stats, the timer started
newSmartCache(cfg) ==
    [config |-> cfg, cache |-> <<>>, stats |-> InitStats,
     timer |-> "active", destroyed |-> FALSE]

\* destroy, were the interval not cleared
destroyKeepsTimer(inst) ==
    LET c == clear(inst.cache, inst.stats)
    IN  [inst EXCEPT !.cache = c.cache, !.stats = c.stats, !.destroyed = TRUE]

destroy(inst) ==
    LET c == clear(inst.cache, inst.stats)
    IN  [inst EXCEPT !.timer = "cleared", !.cache = c.cache, !.stats = c.stats,
                     !.destroyed = TRUE]

\* getCache, were a SmartCache constructed on every call
getCacheAlwaysConstructs(reg, hp, name, cfg) ==
    LET hp2 == Append(hp, newSmartCache(mergedConfig(cfg)))
    IN  [caches |-> [reg EXCEPT ![name] = Len(hp2)], heap |-> hp2, ret |-> Len(hp2)]

getCache(reg, hp, name, cfg) ==
    IF reg[name] = NoCache
    THEN LET hp2 == Append(hp, newSmartCache(mergedConfig(cfg)))
         IN  [caches |-> [reg EXCEPT ![name] = Len(hp2)], heap |-> hp2, ret |-> Len(hp2)]
    ELSE [caches |-> reg, heap |-> hp, ret |-> reg[name]]

\* destroyCache, were the name left in the registry
destroyCacheKeepsEntry(reg, hp, name) ==
    IF reg[name] # NoCache
    THEN [caches |-> reg,
          heap   |-> [hp EXCEPT ![reg[name]] = destroy(@)],
          ret    |-> TRUE]
    ELSE [caches |-> reg, heap |-> hp, ret |-> FALSE]

destroyCache(reg, hp, name) ==
    IF reg[name] # NoCache
    THEN [caches |-> [reg EXCEPT ![name] = NoCache],
          heap   |-> [hp EXCEPT ![reg[name]] = destroy(@)],
          ret    |-> TRUE]
    ELSE [caches |-> reg, heap |-> hp, ret |-> FALSE]

\* the module has been loaded: ProductCache is registered under 'products'
ModuleLoaded == getCache(NoCaches, <<>>, "products", ProductConfig)

RegKeys == {"a", "b"}
RegTtls == {NoTtl}

RegistryInit ==
    /\ caches = ModuleLoaded.caches
    /\ heap = ModuleLoaded.heap
    /\ config = QueryConfig
    /\ cache = <<>>
    /\ stats = InitStats
    /\ now = 0
    /\ task = [p \in Procs |-> IdleTask]
    /\ loaderCalls = [k \in Keys |-> 0]
    /\ pc = 0
    /\ obs = <<>>

GetCache(name, cfg) ==
    /\ caches[name] = NoCache => Len(heap) < MaxInstances
    /\ LET r == getCache(caches, heap, name, cfg)
       IN  /\ caches' = r.caches
           /\ heap' = r.heap
    /\ UNCHANGED <<config, cache, stats, now, task, loaderCalls, pc, obs>>

DestroyCache(name) ==
    /\ LET r == destroyCache(caches, heap, name)
       IN  /\ caches' = r.caches
           /\ heap' = r.heap
    /\ UNCHANGED <<config, cache, stats, now, task, loaderCalls, pc, obs>>

\* CacheManager.getCache(name).set(k, v, ttl) on a registered name
RegSet(name, k, ttl) ==
    /\ caches[name] # NoCache
    /\ LET i == caches[name]
           inst == heap[i]
           r == set(inst.config, inst.cache, inst.stats, k, "v1", ttl, now)
       IN  /\ inst.stats.sets < MaxRegSets
           /\ heap' = [heap EXCEPT ![i] = [inst EXCEPT !.cache = r.cache,
                                                       !.stats = r.stats]]
    /\ UNCHANGED <<config, cache, stats, now, task, loaderCalls, pc, obs, caches>>

\* the interval of instance i fires: it does while it has not been cleared
RegCleanup(i) ==
    /\ i \in DOMAIN heap
    /\ heap[i].timer = "active"
    /\ LET inst == heap[i]
           r == cleanup(inst.cache, inst.stats, now)
       IN  heap' = [heap EXCEPT ![i] = [inst EXCEPT !.cache = r.cache,
                                                    !.stats = r.stats]]
    /\ UNCHANGED <<config, cache, stats, now, task, loaderCalls, pc, obs, caches>>

RegistryNext ==
    \/ \E name \in Names, cfg \in PartialConfigs : GetCache(name, cfg)
    \/ \E name \in Names : DestroyCache(name)
    \/ \E name \in Names, k \in RegKeys, ttl \in RegTtls : RegSet(name, k, ttl)
    \/ \E i \in 1..MaxInstances : RegCleanup(i)
    \/ Tick

SpecRegistry == RegistryInit /\ [][RegistryNext]_vars

(***************************************************************************)
(* CachedQuery.warmUpCache: the call awaits the bulk loader; the loader    *)
(* resolves to a list of items or rejects.                                 *)
(***************************************************************************)
MaxWarmLen == 2

WarmItems == [key : QueryKeys, data : {"v1", "v2"}]
WarmLists == UNION {[1..n -> WarmItems] : n \in 0..MaxWarmLen}

\* a cache of one entry: the order of the sets decides which key it keeps
WarmConfig == [maxSize |-> 1, defaultTtl |-> DefaultTtl, evictionPolicy |-> "lru"]

\* the loop, were the list walked from its last item to its first
RECURSIVE warmUpLoopReversed(_, _, _, _, _, _, _)
warmUpLoopReversed(cfg, c, st, data, i, ttl, t) ==
    IF i > Len(data) THEN [cache |-> c, stats |-> st]
    ELSE LET item == data[Len(data) + 1 - i]
             s == set(cfg, c, st, item.key, item.data, ttl, t)
         IN  warmUpLoopReversed(cfg, s.cache, s.stats, data, i + 1, ttl, t)

\* lines 437-439: for (const item of data) cache.set(item.key, item.data, ttl)
RECURSIVE warmUpLoop(_, _, _, _, _, _, _)
warmUpLoop(cfg, c, st, data, i, ttl, t) ==
    IF i > Len(data) THEN [cache |-> c, stats |-> st]
    ELSE LET item == data[i]
             s == set(cfg, c, st, item.key, item.data, ttl, t)
         IN  warmUpLoop(cfg, s.cache, s.stats, data, i + 1, ttl, t)

\* lines 436-440: the loader resolved to data; the promise is fulfilled
warmUpCacheResolve(cfg, c, st, data, ttl, t) ==
    LET r == warmUpLoop(cfg, c, st, data, 1, ttl, t)
    IN  [cache |-> r.cache, stats |-> r.stats, pc |-> "returned", ret |-> Void]

\* lines 441-443: the loader rejected; the catch logs, the promise is fulfilled
warmUpCacheReject(cfg, c, st, ttl, error, t) ==
    [cache |-> c, stats |-> st, pc |-> "returned", ret |-> Void]

WarmInit ==
    /\ config = WarmConfig
    /\ cache = <<>>
    /\ stats = InitStats
    /\ now = 0
    /\ task = [p \in Procs |-> IdleTask]
    /\ loaderCalls = [k \in Keys |-> 0]
    /\ pc = 0
    /\ obs = <<>>
    /\ caches = NoCaches
    /\ heap = <<>>

\* line 436: dataLoader() is called and awaited
WarmUpCall(p, ttl) ==
    /\ task[p].pc # "loading"
    /\ stats.sets < MaxSets
    /\ task' = [task EXCEPT ![p] = [pc |-> "loading", key |-> NoKey, ttl |-> ttl,
                                    ret |-> Void]]
    /\ UNCHANGED <<config, cache, stats, now, loaderCalls, pc, obs, caches, heap>>

WarmUpResolve(p, data) ==
    /\ task[p].pc = "loading"
    /\ LET r == warmUpCacheResolve(config, cache, stats, data, task[p].ttl, now)
       IN  /\ Apply(r)
           /\ task' = [task EXCEPT ![p].pc = r.pc, ![p].ret = r.ret]
    /\ UNCHANGED <<config, now, loaderCalls, pc, obs, caches, heap>>

WarmUpReject(p, e) ==
    /\ task[p].pc = "loading"
    /\ LET r == warmUpCacheReject(config, cache, stats, task[p].ttl, e, now)
       IN  /\ Apply(r)
           /\ task' = [task EXCEPT ![p].pc = r.pc, ![p].ret = r.ret]
    /\ UNCHANGED <<config, now, loaderCalls, pc, obs, caches, heap>>

WarmNext ==
    \/ \E p \in Procs, ttl \in QueryTtls : WarmUpCall(p, ttl)
    \/ \E p \in Procs, data \in WarmLists : WarmUpResolve(p, data)
    \/ \E p \in Procs, e \in Errors : WarmUpReject(p, e)
    \/ \E k \in QueryKeys : Get(k)
    \/ Tick

SpecWarm == WarmInit /\ [][WarmNext]_vars

(***************************************************************************)
(* The periodic sweep of a SmartCache that is not destroyed: the interval  *)
(* started by the constructor keeps firing, so a sweep that would change   *)
(* the cache is not postponed for ever.  The callers write, probe, read    *)
(* and delete in between, and the clock advances.                          *)
(***************************************************************************)
SweepConfig == [maxSize |-> MaxCap, defaultTtl |-> DefaultTtl, evictionPolicy |-> "lru"]

SweepInit ==
    /\ config = SweepConfig
    /\ cache = <<>>
    /\ stats = InitStats
    /\ now = 0
    /\ task = [p \in Procs |-> IdleTask]
    /\ loaderCalls = [k \in Keys |-> 0]
    /\ pc = 0
    /\ obs = <<>>
    /\ caches = NoCaches
    /\ heap = <<>>

SweepNext ==
    \/ \E k \in QueryKeys, ttl \in TtlArgs : Set(k, "v1", ttl)
    \/ \E k \in QueryKeys : Get(k)
    \/ \E k \in QueryKeys : Has(k)
    \/ \E k \in QueryKeys : Delete(k)
    \/ Cleanup
    \/ Tick

SpecSweep == SweepInit /\ [][SweepNext]_vars /\ WF_vars(Cleanup)

(***************************************************************************)
(* CacheInvalidation: the recipes act on the module-level constants        *)
(* ProductCache, CustomerCache, OrderCache and SearchCache, which hold the *)
(* instances that CacheManager.getCache returned when the module was       *)
(* loaded.                                                                 *)
(***************************************************************************)
MaxRecipeSets == 3
MaxRecipeInstances == 5

CustomerMaxSize == 1000
OrderMaxSize == 200
TwoMinutes == 120000
SearchMaxSize == 100
FifteenMinutes == 900000

\* the strings Text knows
Strings ==
    {"product:1", "product:2", "customer:9", "list:product",
     "product", "list", "9", "", "product:", "customer:", "order:",
     "1", "2", "12", "7", "search:product", "search:shoes",
     "customer:1", "customer:12", "orders:customer:1",
     "orders:customer:12", "order:7"}

\* a template literal `${a}${b}`: the string of the characters of a, then b
Concat(a, b) == CHOOSE str \in Strings : Text(str) = Text(a) \o Text(b)

RecipeNames == {"products", "customers", "orders", "search"}

CustomerConfig ==
    [maxSize |-> CustomerMaxSize, defaultTtl |-> FiveMinutes, evictionPolicy |-> "lru"]
OrderConfig ==
    [maxSize |-> OrderMaxSize, defaultTtl |-> TwoMinutes, evictionPolicy |-> "lru"]
SearchConfig ==
    [maxSize |-> SearchMaxSize, defaultTtl |-> FifteenMinutes, evictionPolicy |-> "lfu"]

\* the four module-level getCache calls, in the order of the module
LoadProducts == getCache([n \in RecipeNames |-> NoCache], <<>>, "products", ProductConfig)
LoadCustomers == getCache(LoadProducts.caches, LoadProducts.heap, "customers", CustomerConfig)
LoadOrders == getCache(LoadCustomers.caches, LoadCustomers.heap, "orders", OrderConfig)
LoadSearch == getCache(LoadOrders.caches, LoadOrders.heap, "search", SearchConfig)

\* the exported constants: the instances returned at load time
ProductCache == LoadProducts.ret
CustomerCache == LoadCustomers.ret
OrderCache == LoadOrders.ret
SearchCache == LoadSearch.ret

\* cache.delete(key) and invalidatePattern(cache, pattern) on instance i
heapDelete(hp, i, key) ==
    LET d == delete(hp[i].cache, hp[i].stats, key)
    IN  [hp EXCEPT ![i] = [@ EXCEPT !.cache = d.cache, !.stats = d.stats]]

heapInvalidatePattern(hp, i, pattern) ==
    LET r == invalidatePattern(hp[i].cache, hp[i].stats, pattern)
    IN  [hp EXCEPT ![i] = [@ EXCEPT !.cache = r.cache, !.stats = r.stats]]

\* invalidateProductCaches, were the list views of the product cache kept
invalidateProductCachesKeepsLists(hp, productId) ==
    LET h1 == heapDelete(hp, ProductCache, Concat("product:", productId))
    IN  heapInvalidatePattern(h1, SearchCache, "product")

invalidateProductCaches(hp, productId) ==
    LET h1 == heapDelete(hp, ProductCache, Concat("product:", productId))
        h2 == heapInvalidatePattern(h1, SearchCache, "product")
    IN  heapInvalidatePattern(h2, ProductCache, "list")

invalidateCustomerCaches(hp, customerId) ==
    LET h1 == heapDelete(hp, CustomerCache, Concat("customer:", customerId))
    IN  heapInvalidatePattern(h1, OrderCache, Concat("customer:", customerId))

\* customerId is optional: undefined and '' are falsy
invalidateOrderCaches(hp, orderId, customerId) ==
    LET h1 == heapDelete(hp, OrderCache, Concat("order:", orderId))
    IN  IF customerId # NoKey
        THEN heapInvalidatePattern(h1, OrderCache, Concat("customer:", customerId))
        ELSE h1

\* CacheManager.clearAll: clear() on every registered cache
clearAll(reg, hp) ==
    [i \in DOMAIN hp |->
        IF \E n \in DOMAIN reg : reg[n] = i
        THEN LET c == clear(hp[i].cache, hp[i].stats)
             IN  [hp[i] EXCEPT !.cache = c.cache, !.stats = c.stats]
        ELSE hp[i]]

ProductIds == {"1", "2"}
CustomerIds == {"1", "12"}
OrderIds == {"7"}

\* the keys the callers store in each named cache
RecipeKeys ==
    [n \in RecipeNames |->
        CASE n = "products" -> {"product:1", "product:2", "list:product"}
          [] n = "customers" -> {"customer:1", "customer:12"}
          [] n = "orders" -> {"orders:customer:1", "orders:customer:12", "order:7"}
          [] n = "search" -> {"search:product", "search:shoes"}]

RECURSIVE SetsOf(_, _)
SetsOf(hp, i) == IF i = 0 THEN 0 ELSE hp[i].stats.sets + SetsOf(hp, i - 1)

RecipeInit ==
    /\ caches = LoadSearch.caches
    /\ heap = LoadSearch.heap
    /\ config = QueryConfig
    /\ cache = <<>>
    /\ stats = InitStats
    /\ now = 0
    /\ task = [p \in Procs |-> IdleTask]
    /\ loaderCalls = [k \in Keys |-> 0]
    /\ pc = 0
    /\ obs = <<>>

\* CacheManager.getCache(name).set(k, v) on the registered cache
RecipeSet(name, k) ==
    /\ caches[name] # NoCache
    /\ SetsOf(heap, Len(heap)) < MaxRecipeSets
    /\ LET i == caches[name]
           inst == heap[i]
           r == set(inst.config, inst.cache, inst.stats, k, "v1", NoTtl, now)
       IN  heap' = [heap EXCEPT ![i] = [inst EXCEPT !.cache = r.cache,
                                                    !.stats = r.stats]]
    /\ UNCHANGED <<config, cache, stats, now, task, loaderCalls, pc, obs, caches>>

InvalidateProductCaches(productId) ==
    /\ heap' = invalidateProductCaches(heap, productId)
    /\ UNCHANGED <<config, cache, stats, now, task, loaderCalls, pc, obs, caches>>

InvalidateCustomerCaches(customerId) ==
    /\ heap' = invalidateCustomerCaches(heap, customerId)
    /\ UNCHANGED <<config, cache, stats, now, task, loaderCalls, pc, obs, caches>>

InvalidateOrderCaches(orderId, customerId) ==
    /\ heap' = invalidateOrderCaches(heap, orderId, customerId)
    /\ UNCHANGED <<config, cache, stats, now, task, loaderCalls, pc, obs, caches>>

InvalidateAll ==
    /\ heap' = clearAll(caches, heap)
    /\ UNCHANGED <<config, cache, stats, now, task, loaderCalls, pc, obs, caches>>

RecipeGetCache(name) ==
    /\ caches[name] = NoCache => Len(heap) < MaxRecipeInstances
    /\ LET r == getCache(caches, heap, name, NoConfig)
       IN  /\ caches' = r.caches
           /\ heap' = r.heap
    /\ UNCHANGED <<config, cache, stats, now, task, loaderCalls, pc, obs>>

RecipeNext ==
    \/ \E name \in RecipeNames : \E k \in RecipeKeys[name] : RecipeSet(name, k)
    \/ \E productId \in ProductIds : InvalidateProductCaches(productId)
    \/ \E customerId \in CustomerIds : InvalidateCustomerCaches(customerId)
    \/ \E orderId \in OrderIds, customerId \in CustomerIds \cup {NoKey} :
          InvalidateOrderCaches(orderId, customerId)
    \/ InvalidateAll
    \/ \E name \in RecipeNames : DestroyCache(name)
    \/ \E name \in RecipeNames : RecipeGetCache(name)

SpecRecipes == RecipeInit /\ [][RecipeNext]_vars

(***************************************************************************)
(* CacheMonitoring.generateReport.  A rate is kept as the fraction <<a, b>> *)
(* of the percentage (a/b)*100 and compared with a percentage exactly.     *)
(***************************************************************************)
MaxReportHits == 3
MaxReportMisses == 4

CriticalBelow == 30
WarningBelow == 60
LowHitRateBelow == 50

\* rate < pct
RateBelow(rate, pct) == rate[1] * 100 < pct * rate[2]

\* the name a registered instance is registered under
NameOf(reg, i) == CHOOSE n \in DOMAIN reg : reg[n] = i

\* lines 510-524: the loop over the stats of the registered caches, in the
\* order of the registry Map (the order in which the instances were made)
RECURSIVE reportLoop(_, _, _, _)
reportLoop(reg, hp, i, acc) ==
    IF i > Len(hp) THEN acc
    ELSE IF \A n \in DOMAIN reg : reg[n] # i THEN reportLoop(reg, hp, i + 1, acc)
    ELSE LET stat == hp[i].stats
             name == NameOf(reg, i)
             r1 == IF RateBelow(stat.hitRate, LowHitRateBelow)
                   THEN Append(acc.recommendations, <<name, "low hit rate">>)
                   ELSE acc.recommendations
             r2 == IF stat.evictions * 10 > stat.sets * 3
                   THEN Append(r1, <<name, "high eviction rate">>)
                   ELSE r1
         IN  reportLoop(reg, hp, i + 1,
                        [totalHits |-> acc.totalHits + stat.hits,
                         totalRequests |-> acc.totalRequests + stat.hits + stat.misses,
                         totalSize |-> acc.totalSize + stat.totalSize,
                         recommendations |-> r2])

\* generateReport, were a rate of exactly 60 classified as a warning
generateReportWarningAtSixty(reg, hp) ==
    LET acc == reportLoop(reg, hp, 1, [totalHits |-> 0, totalRequests |-> 0,
                                       totalSize |-> 0, recommendations |-> <<>>])
        totalHitRate == IF acc.totalRequests > 0
                        THEN <<acc.totalHits, acc.totalRequests>>
                        ELSE <<0, 1>>
        healthStatus == IF RateBelow(totalHitRate, CriticalBelow) THEN "critical"
                        ELSE IF totalHitRate[1] * 100 <= WarningBelow * totalHitRate[2]
                             THEN "warning"
                             ELSE "healthy"
    IN  [recommendations |-> acc.recommendations,
         totalHitRate |-> totalHitRate,
         totalSize |-> acc.totalSize,
         healthStatus |-> healthStatus]

generateReport(reg, hp) ==
    LET acc == reportLoop(reg, hp, 1, [totalHits |-> 0, totalRequests |-> 0,
                                       totalSize |-> 0, recommendations |-> <<>>])
        totalHitRate == IF acc.totalRequests > 0
                        THEN <<acc.totalHits, acc.totalRequests>>
                        ELSE <<0, 1>>
        healthStatus == IF RateBelow(totalHitRate, CriticalBelow) THEN "critical"
                        ELSE IF RateBelow(totalHitRate, WarningBelow) THEN "warning"
                        ELSE "healthy"
    IN  [recommendations |-> acc.recommendations,
         totalHitRate |-> totalHitRate,
         totalSize |-> acc.totalSize,
         healthStatus |-> healthStatus]

\* an instance after set('a'), h reads of 'a' and m reads of a missing key
ReadInstance(inst, h, m) ==
    LET s == set(inst.config, inst.cache, inst.stats, "a", "v1", NoTtl, 0)
    IN  IF h + m = 0 THEN inst
        ELSE [inst EXCEPT
                 !.cache = <<[s.cache[1] EXCEPT !.accessCount = 1 + h]>>,
                 !.stats = updateHitRate([s.stats EXCEPT !.hits = h, !.misses = m])]

\* the module is loaded and the product and search caches have been read
ReportInit ==
    /\ caches = LoadSearch.caches
    /\ \E h1, h2 \in 0..MaxReportHits, m1, m2 \in 0..MaxReportMisses :
          heap = [LoadSearch.heap EXCEPT
                     ![ProductCache] = ReadInstance(@, h1, m1),
                     ![SearchCache] = ReadInstance(@, h2, m2)]
    /\ config = QueryConfig
    /\ cache = <<>>
    /\ stats = InitStats
    /\ now = 0
    /\ task = [p \in Procs |-> IdleTask]
    /\ loaderCalls = [k \in Keys |-> 0]
    /\ pc = 0
    /\ obs = <<>>

\* CacheManager.getCache(name).get(k) on the registered cache
ReportGet(name, k) ==
    /\ caches[name] # NoCache
    /\ LET i == caches[name]
           inst == heap[i]
           r == get(inst.cache, inst.stats, k, now)
       IN  /\ r.stats.hits <= MaxReportHits
           /\ r.stats.misses <= MaxReportMisses
           /\ heap' = [heap EXCEPT ![i] = [inst EXCEPT !.cache = r.cache,
                                                       !.stats = r.stats]]
    /\ UNCHANGED <<config, cache, stats, now, task, loaderCalls, pc, obs, caches>>

\* obs keeps the report returned
GenerateReport ==
    /\ obs' = <<generateReport(caches, heap)>>
    /\ UNCHANGED <<config, cache, stats, now, task, loaderCalls, pc, caches, heap>>

ReportNext ==
    \/ \E name \in {"products", "search"}, k \in {"a", "b"} : ReportGet(name, k)
    \/ \E name \in {"products", "search"} : DestroyCache(name)
    \/ GenerateReport

SpecReport == ReportInit /\ [][ReportNext]_vars

(***************************************************************************)
(* Shorthands of the properties.                                           *)
(***************************************************************************)
\* the entries other than the one under key k, in store order
Others(c, k) == SelectSeq(c, LAMBDA e : e.key # k)

\* the eviction metric of an entry under a policy
Metric(policy, e) ==
    CASE policy = "lru" -> e.lastAccessed
      [] policy = "lfu" -> e.accessCount
      [] OTHER -> Plus(e.timestamp, e.ttl)

\* ttl arguments above 0
PositiveTtls == {1, 2, Infinity}

(***************************************************************************)
(* C1.  Capacity invariant: in every reachable state of a SmartCache       *)
(* constructed with any maxSize, size() is at most maxSize.                *)
(***************************************************************************)
CapacityInvariant == size(cache) <= config.maxSize

(***************************************************************************)
(* C2.  Set-then-read round trip: from every reachable state, for every    *)
(* key k, value v and ttl > 0, get(k) right after set(k, v, ttl), at the   *)
(* same clock reading, returns v, and has(k) right after it returns true.  *)
(***************************************************************************)
SetThenRead ==
    \A k \in Keys, v \in Values, ttl \in PositiveTtls :
        LET s == set(config, cache, stats, k, v, ttl, now)
        IN  /\ get(s.cache, s.stats, k, now).ret = v
            /\ has(s.cache, s.stats, k, now).ret = TRUE

\* a full store right after a set that evicted: the newest entry was written
\* at this clock reading, has not been read, and get returns its payload
SetThenReadWitness ==
    /\ config.maxSize = MaxCap
    /\ Len(cache) = config.maxSize
    /\ stats.evictions > 0
    /\ now > 0
    /\ LET e == cache[Len(cache)]
       IN  /\ e.timestamp = now
           /\ e.accessCount = 1
           /\ get(cache, stats, e.key, now).ret = e.data

(***************************************************************************)
(* C3.  Lazy expiry on get: in every reachable state, a get(k) on a stored *)
(* entry with now - timestamp > ttl returns absent, removes that entry and *)
(* no other, and adds exactly one eviction; a get(k) on a key that is not  *)
(* stored (as k is after the purge) returns absent, adds no eviction and   *)
(* leaves the store as it is.                                              *)
(***************************************************************************)
LazyExpiryOnGet ==
    \A k \in Keys :
        LET g == get(cache, stats, k, now)
        IN  /\ (MapHas(cache, k)
                  /\ now - MapGet(cache, k).timestamp > MapGet(cache, k).ttl)
               => /\ g.ret = Null
                  /\ ~MapHas(g.cache, k)
                  /\ Others(g.cache, k) = Others(cache, k)
                  /\ g.stats.evictions = stats.evictions + 1
            /\ ~MapHas(cache, k)
               => /\ g.ret = Null
                  /\ g.cache = cache
                  /\ g.stats.evictions = stats.evictions

\* after one set, the expired entry was purged by a get: one miss, one
\* eviction, the store is empty, and the sweep has not run since (it would
\* have refreshed totalSize)
LazyExpiryWitness ==
    /\ stats.sets = 1
    /\ stats.misses = 1
    /\ stats.hits = 0
    /\ stats.evictions = 1
    /\ stats.deletes = 0
    /\ stats.totalSize = 1
    /\ Len(cache) = 0

(***************************************************************************)
(* C4.  Eviction-policy correctness: in every reachable state, a           *)
(* set(k, ...) on a store that is at maxSize and does not hold k removes   *)
(* exactly one entry, one whose policy metric is minimal over the stored   *)
(* entries, and adds exactly one eviction.  (Stated for the stores that    *)
(* hold an entry: on a cache with maxSize 0 the empty store is at maxSize  *)
(* and there is nothing to remove.)                                        *)
(***************************************************************************)
EvictionPolicyCorrect ==
    \A k \in Keys, v \in SetValues, ttl \in TtlArgs :
        LET s == set(config, cache, stats, k, v, ttl, now)
        IN  (Len(cache) = config.maxSize /\ Len(cache) > 0 /\ ~MapHas(cache, k))
               => /\ s.stats.evictions = stats.evictions + 1
                  /\ \E i \in 1..Len(cache) :
                        /\ Others(s.cache, k) = MapDelete(cache, cache[i].key)
                        /\ \A j \in 1..Len(cache) :
                              Metric(config.evictionPolicy, cache[i])
                                 <= Metric(config.evictionPolicy, cache[j])

(***************************************************************************)
(* C6.  Overwrite never forces eviction: in every reachable state, a       *)
(* set(k, ...) on a store that is at (or above) maxSize and holds k        *)
(* removes no entry, leaves every other entry as it is, and leaves the     *)
(* evictions counter and size() unchanged.                                 *)
(***************************************************************************)
OverwriteNeverEvicts ==
    \A k \in Keys, v \in SetValues, ttl \in TtlArgs :
        LET s == set(config, cache, stats, k, v, ttl, now)
        IN  (Len(cache) >= config.maxSize /\ MapHas(cache, k))
               => /\ MapKeys(s.cache) = MapKeys(cache)
                  /\ Others(s.cache, k) = Others(cache, k)
                  /\ s.stats.evictions = stats.evictions
                  /\ size(s.cache) = size(cache)

\* a full store whose first-inserted entry is newer than the second: it was
\* overwritten while the store was full, and nothing was ever evicted
OverwriteWitness ==
    /\ config.maxSize = MaxCap
    /\ Len(cache) = config.maxSize
    /\ cache[1].timestamp > cache[2].timestamp
    /\ stats.evictions = 0
    /\ stats.deletes = 0

(***************************************************************************)
(* C5.  Scenario A: after set(a,1), set(b,2), get(a), set(c,3) on an empty *)
(* lru cache with maxSize 2, under every timing of the calls in which no   *)
(* entry expires, get(a) = 1, get(b) = absent and get(c) = 3.              *)
(***************************************************************************)
ScenarioA ==
    pc > Len(ScenarioScript) => obs = <<"1", Null, "3">>

(***************************************************************************)
(* C7.  Cache-aside hit: in every reachable state, for every key under     *)
(* which a getWithCache miss has stored a value that has not expired, a    *)
(* getWithCache call for the key returns that value and does not invoke    *)
(* the loader.                                                             *)
(***************************************************************************)
CacheAsideHit ==
    \A k \in QueryKeys :
        (MapHas(cache, k) /\ ~(now - MapGet(cache, k).timestamp > MapGet(cache, k).ttl))
           => LET r == getWithCacheCall(cache, stats, loaderCalls, k, now)
              IN  /\ r.pc = "returned"
                  /\ r.ret = MapGet(cache, k).data
                  /\ r.loaderCalls = loaderCalls

(***************************************************************************)
(* C8.  Single-flight: at most one loader invocation per key is in flight  *)
(* at any time.                                                            *)
(***************************************************************************)
SingleFlight ==
    \A k \in QueryKeys : Cardinality(Loading(k)) <= 1

(***************************************************************************)
(* C9.  Miss stampede, last writer wins: a getWithCache call for a cold    *)
(* key invokes the loader whether or not other calls are loading the key,  *)
(* so every call in flight has an invocation of its own; and whenever the  *)
(* loader of a call in flight resolves, the call stores its result under   *)
(* the key, over whatever an earlier resolution stored, and returns it.    *)
(***************************************************************************)
MissStampede ==
    \A k \in QueryKeys :
        /\ Cardinality(Loading(k)) <= loaderCalls[k]
        /\ (~MapHas(cache, k) \/ now - MapGet(cache, k).timestamp > MapGet(cache, k).ttl)
              => LET r == getWithCacheCall(cache, stats, loaderCalls, k, now)
                 IN  /\ r.pc = "loading"
                     /\ r.loaderCalls[k] = loaderCalls[k] + 1
        /\ \A p \in Loading(k), v \in Values :
              LET r == getWithCacheResolve(config, cache, stats, k, v, task[p].ttl, now)
              IN  /\ r.pc = "returned"
                  /\ r.ret = v
                  /\ MapHas(r.cache, k)
                  /\ MapGet(r.cache, k).data = v
                  /\ r.stats.sets = stats.sets + 1

\* both calls missed on the same key before either stored (two misses, no
\* hit, nothing deleted or expired), both loaders resolved, each call
\* returned its own result, and the store holds one of the two
MissStampedeWitness ==
    /\ task["p1"].pc = "returned" /\ task["p2"].pc = "returned"
    /\ task["p1"].key = task["p2"].key
    /\ task["p1"].ret # task["p2"].ret
    /\ loaderCalls[task["p1"].key] = 2
    /\ stats.misses = 2 /\ stats.hits = 0 /\ stats.sets = 2
    /\ stats.deletes = 0 /\ stats.evictions = 0
    /\ MapHas(cache, task["p1"].key)
    /\ MapGet(cache, task["p1"].key).data \in {task["p1"].ret, task["p2"].ret}

(***************************************************************************)
(* C10, as claimed.  Loader failure is not cached: when the lookup of a    *)
(* getWithCache call misses and its loader rejects, the call rejects with  *)
(* the same error and the stored entries and the counters are as before    *)
(* the call, but for the one miss.                                         *)
(***************************************************************************)
LoaderFailureLeavesCacheAsBefore ==
    \A k \in QueryKeys, e \in Errors, ttl \in QueryTtls :
        LET c == getWithCacheCall(cache, stats, loaderCalls, k, now)
            r == getWithCacheReject(config, c.cache, c.stats, k, ttl, e, now)
        IN  (c.pc = "loading" /\ c.stats.misses = stats.misses + 1)
               => /\ r.pc = "rejected"
                  /\ r.ret = e
                  /\ r.cache = cache
                  /\ r.stats = updateHitRate([stats EXCEPT !.misses = @ + 1])

(***************************************************************************)
(* C10, amended.  When the loader of a getWithCache call rejects, the call *)
(* rejects with the same error, the sets counter is as before the call, no *)
(* entry is added or overwritten, and the store and the counters are       *)
(* exactly as the call's initial get(key) left them.                       *)
(***************************************************************************)
LoaderFailureNotCached ==
    \A k \in QueryKeys, e \in Errors, ttl \in QueryTtls :
        LET g == get(cache, stats, k, now)
            c == getWithCacheCall(cache, stats, loaderCalls, k, now)
            r == getWithCacheReject(config, c.cache, c.stats, k, ttl, e, now)
        IN  c.pc = "loading"
               => /\ r.pc = "rejected"
                  /\ r.ret = e
                  /\ r.cache = g.cache
                  /\ r.stats = g.stats
                  /\ r.stats.sets = stats.sets
                  /\ \A i \in 1..Len(r.cache) :
                        \E j \in 1..Len(cache) :
                           /\ r.cache[i].key = cache[j].key
                           /\ r.cache[i].data = cache[j].data
                           /\ r.cache[i].timestamp = cache[j].timestamp
                           /\ r.cache[i].ttl = cache[j].ttl

\* two loads of one key: the first resolved and was stored, the entry
\* expired, the lookup of the second call purged it (the one eviction), and
\* the second loader rejected: the store is empty and sets is still 1
LoaderFailureWitness ==
    \E p \in Procs :
        /\ task[p].pc = "rejected"
        /\ task[p].ret \in Errors
        /\ loaderCalls[task[p].key] = 2
        /\ stats.misses = 2 /\ stats.hits = 0
        /\ stats.sets = 1 /\ stats.evictions = 1 /\ stats.deletes = 0
        /\ Len(cache) = 0

(***************************************************************************)
(* C11.  invalidatePattern(cache, s) removes exactly the stored keys that  *)
(* contain s as a literal substring, leaves every other entry (key,        *)
(* value, ttl, access bookkeeping, position) as it is, and returns a count *)
(* equal to the number of keys removed and to the increase of the deletes  *)
(* counter; no other counter but totalSize changes.                        *)
(***************************************************************************)
InvalidatePatternExact ==
    \A pattern \in Patterns :
        LET r == invalidatePattern(cache, stats, pattern)
            removed == {k \in MapKeys(cache) : includes(k, pattern)}
        IN  /\ r.cache = SelectSeq(cache, LAMBDA e : e.key \notin removed)
            /\ r.ret = Cardinality(removed)
            /\ r.stats.deletes = stats.deletes + r.ret
            /\ r.stats = [stats EXCEPT !.deletes = r.stats.deletes,
                                       !.totalSize = r.stats.totalSize]

\* scenario D: of product:1, product:2 and customer:9, the pattern
\* "product" removed the first two and the call returned 2
InvalidatePatternWitness ==
    /\ stats.sets = 3
    /\ stats.deletes = 2
    /\ obs = <<2>>
    /\ MapKeys(cache) = {"customer:9"}

(***************************************************************************)
(* C14.  Exactly-once expiry accounting: in every reachable state of a     *)
(* cache with maxSize > 0, each                                            *)
(* of the three paths that remove expired entries (the lazy purge of get,  *)
(* the lazy purge of has, the cleanup sweep) adds to the evictions counter *)
(* exactly the number of entries it removes.                               *)
(***************************************************************************)
ExpiryCountedOnce ==
    config.maxSize > 0 =>
    /\ \A k \in Keys :
          LET g == get(cache, stats, k, now)
              h == has(cache, stats, k, now)
          IN  /\ g.stats.evictions - stats.evictions = Len(cache) - Len(g.cache)
              /\ h.stats.evictions - stats.evictions = Len(cache) - Len(h.cache)
    /\ LET s == cleanup(cache, stats, now)
       IN  s.stats.evictions - stats.evictions = Len(cache) - Len(s.cache)

(***************************************************************************)
(* C15.  delete idempotence: in every reachable state and for every stored *)
(* key k, delete(k) returns true, a second delete(k) returns false, the    *)
(* deletes counter is one more after the pair, and the second call leaves  *)
(* the store and the stats as the first left them.                         *)
(***************************************************************************)
DeleteIdempotent ==
    \A k \in MapKeys(cache) :
        LET d1 == delete(cache, stats, k)
            d2 == delete(d1.cache, d1.stats, k)
        IN  /\ d1.ret = TRUE
            /\ d2.ret = FALSE
            /\ d2.stats.deletes = stats.deletes + 1
            /\ d2.cache = d1.cache
            /\ d2.stats = d1.stats

\* two stored keys, one deleted already: a delete of the other is the first
\* of a pair, a delete of the deleted one changes nothing
DeleteIdempotentWitness ==
    /\ stats.sets = 2
    /\ stats.deletes = 1
    /\ stats.evictions = 0
    /\ Len(cache) = 1
    /\ \E k \in Keys \ MapKeys(cache) : delete(cache, stats, k).ret = FALSE

(***************************************************************************)
(* C16.  hitRate invariant: in every reachable state, and after up to two  *)
(* further get calls, the hitRate of the stats is 100*h/(h+m) for h hits   *)
(* and m misses when h+m > 0, and 0 when h+m = 0.  hitRate is kept as the  *)
(* fraction <<a, b>> of the percentage (a/b)*100, compared exactly.        *)
(***************************************************************************)
HitRateOf(st) ==
    LET h == st.hits
        m == st.misses
    IN  IF h + m > 0
        THEN st.hitRate[1] * (h + m) = h * st.hitRate[2] /\ st.hitRate[2] > 0
        ELSE st.hitRate[1] = 0

HitRateInvariant ==
    /\ HitRateOf(stats)
    /\ \A k1, k2 \in Keys :
          LET g1 == get(cache, stats, k1, now)
              g2 == get(g1.cache, g1.stats, k2, now)
          IN  HitRateOf(g1.stats) /\ HitRateOf(g2.stats)

\* one hit, then clear: the store is empty and the hit rate is still 100
HitRateWitness ==
    /\ stats.hits = 1
    /\ stats.misses = 0
    /\ stats.hitRate = <<1, 1>>
    /\ stats.sets = 1
    /\ stats.deletes = 0
    /\ stats.evictions = 0
    /\ Len(cache) = 0

(***************************************************************************)
(* C17.  has(k) is a probe: in every reachable state it returns true iff k *)
(* is stored and not expired, leaves hits, misses and hitRate as they are, *)
(* leaves every entry's accessCount and lastAccessed as they are, and      *)
(* changes the store only by removing k when k is stored and expired.      *)
(***************************************************************************)
HasPureProbe ==
    \A k \in Keys :
        LET h == has(cache, stats, k, now)
            live == MapHas(cache, k) /\ ~isExpired(MapGet(cache, k), now)
        IN  /\ h.ret = live
            /\ h.stats.hits = stats.hits
            /\ h.stats.misses = stats.misses
            /\ h.stats.hitRate = stats.hitRate
            /\ Others(h.cache, k) = Others(cache, k)
            /\ IF MapHas(cache, k) /\ isExpired(MapGet(cache, k), now)
               THEN ~MapHas(h.cache, k)
               ELSE h.cache = cache

\* the only entry was removed by has: nothing was read, deleted, cleared or
\* swept, and totalSize still counts the entry
HasPureProbeWitness ==
    /\ stats.sets = 1
    /\ Len(cache) = 0
    /\ stats.totalSize = 1
    /\ stats.hits = 0
    /\ stats.misses = 0
    /\ stats.deletes = 0
    /\ stats.evictions = 0

(***************************************************************************)
(* C18.  clear() empties the store and sets totalSize to 0, leaving hits,  *)
(* misses, sets, deletes, evictions and hitRate as they are; clear() on    *)
(* the cleared cache changes nothing.                                      *)
(***************************************************************************)
ClearFrame ==
    LET c1 == clear(cache, stats)
        c2 == clear(c1.cache, c1.stats)
    IN  /\ c1.cache = <<>>
        /\ c1.stats.totalSize = 0
        /\ c1.stats = [stats EXCEPT !.totalSize = 0]
        /\ c2.cache = c1.cache
        /\ c2.stats = c1.stats

\* two entries stored, one read, then clear: the store is empty, totalSize
\* is 0 and the counters are those of before
ClearFrameWitness ==
    /\ stats.sets = 2
    /\ stats.hits = 1
    /\ stats.deletes = 0
    /\ stats.evictions = 0
    /\ stats.totalSize = 0
    /\ Len(cache) = 0

(***************************************************************************)
(* C12.  Registry identity: in every reachable registry state and for      *)
(* every name, a getCache(name, c2) right after a getCache(name, c1)       *)
(* returns the same instance and constructs nothing, whatever c2 is; and   *)
(* in every step that is not a destroyCache(name), a name that is          *)
(* registered stays registered to the same instance, whose config stays    *)
(* the one fixed at its creation.                                          *)
(***************************************************************************)
RegistryIdentityStep ==
    /\ \A name \in Names, c1, c2 \in PartialConfigs :
          LET g1 == getCache(caches, heap, name, c1)
              g2 == getCache(g1.caches, g1.heap, name, c2)
          IN  /\ g2.ret = g1.ret
              /\ g2.caches = g1.caches
              /\ g2.heap = g1.heap
              /\ caches[name] = NoCache => g1.heap[g1.ret].config = mergedConfig(c1)
              /\ caches[name] # NoCache => g1.heap[g1.ret].config = heap[caches[name]].config
    /\ \A name \in Names :
          (caches[name] # NoCache /\ caches'[name] # NoCache)
             => /\ caches'[name] = caches[name]
                /\ heap'[caches[name]].config = heap[caches[name]].config

RegistryIdentity == [][RegistryIdentityStep]_vars

\* 'sessions' was created with maxSize 1 and has been written to; a later
\* getCache with another config returns that instance with that config
RegistryIdentityWitness ==
    /\ caches["sessions"] # NoCache
    /\ heap[caches["sessions"]].config.maxSize = 1
    /\ heap[caches["sessions"]].stats.sets > 0
    /\ LET g == getCache(caches, heap, "sessions", [defaultTtl |-> 1, evictionPolicy |-> "ttl"])
       IN  /\ g.ret = caches["sessions"]
           /\ g.heap[g.ret].config.maxSize = 1
           /\ g.heap[g.ret].config.evictionPolicy = "lru"

(***************************************************************************)
(* C13.  Timer lifetime: in every reachable registry state, an instance's  *)
(* cleanup timer is active exactly while destroy() has not returned on it; *)
(* destroy() clears the timer and leaves the store empty; an instance on   *)
(* which destroy() has returned has an empty store and no cleanup step can *)
(* run on it.                                                              *)
(***************************************************************************)
TimerLifetime ==
    \A i \in DOMAIN heap :
        /\ (heap[i].timer = "active") <=> ~heap[i].destroyed
        /\ heap[i].destroyed => heap[i].cache = <<>> /\ ~ENABLED RegCleanup(i)
        /\ LET d == destroy(heap[i])
           IN  /\ d.timer = "cleared"
               /\ d.cache = <<>>
               /\ d.destroyed

\* a cache that held entries has been destroyed while another is still live
TimerLifetimeWitness ==
    \E i, j \in DOMAIN heap :
        /\ heap[i].destroyed
        /\ heap[i].stats.sets > 0
        /\ heap[i].timer = "cleared"
        /\ heap[j].timer = "active"
        /\ Len(heap[j].cache) > 0

(***************************************************************************)
(* C19.  destroyCache(name) returns true iff a cache is registered under   *)
(* name.  When it returns true, that cache has been destroyed (timer       *)
(* cleared, store empty), the name is no longer registered, the other      *)
(* names are as before, and the next getCache(name) constructs and returns *)
(* a new instance, distinct from every earlier one, with an empty store    *)
(* and an active timer; when it returns false, the registry and the        *)
(* instances are unchanged.                                                *)
(***************************************************************************)
DestroyCacheContract ==
    \A name \in Names :
        LET d == destroyCache(caches, heap, name)
            old == caches[name]
        IN  /\ d.ret = (old # NoCache)
            /\ d.ret =>
                 /\ d.heap[old].timer = "cleared"
                 /\ d.heap[old].cache = <<>>
                 /\ d.heap[old].destroyed
                 /\ d.caches[name] = NoCache
                 /\ \A n \in Names \ {name} : d.caches[n] = caches[n]
                 /\ \A j \in DOMAIN heap \ {old} : d.heap[j] = heap[j]
                 /\ \A cfg \in PartialConfigs :
                       LET g == getCache(d.caches, d.heap, name, cfg)
                       IN  /\ g.ret \notin DOMAIN heap
                           /\ g.caches[name] = g.ret
                           /\ g.heap[g.ret] = newSmartCache(mergedConfig(cfg))
                           /\ g.heap[g.ret].cache = <<>>
                           /\ g.heap[g.ret].timer = "active"
                           /\ g.heap[old] = d.heap[old]
            /\ ~d.ret => d.caches = caches /\ d.heap = heap

\* 'products' held entries, was destroyed, and is registered again to a new
\* instance; 'sessions' is not registered, so destroyCache gives false
DestroyCacheWitness ==
    /\ heap[1].destroyed
    /\ heap[1].stats.sets > 0
    /\ caches["products"] = 2
    /\ heap[2].cache = <<>>
    /\ caches["sessions"] = NoCache
    /\ ~destroyCache(caches, heap, "sessions").ret

(***************************************************************************)
(* C20.  warmUpCache is best-effort: in every reachable state, if the bulk *)
(* loader rejects, the call completes normally and the store and the       *)
(* counters are as before; if it resolves to a list of {key, data} pairs,  *)
(* the result is that of one set per pair, in list order, with the ttl of  *)
(* the call (the empty list changes nothing; a list is its front followed  *)
(* by the set of its last pair), and the call completes normally.          *)
(***************************************************************************)
WarmUpBestEffort ==
    \A ttl \in QueryTtls :
        /\ \A e \in Errors :
              LET r == warmUpCacheReject(config, cache, stats, ttl, e, now)
              IN  r.cache = cache /\ r.stats = stats /\ r.pc = "returned" /\ r.ret = Void
        /\ \A data \in WarmLists :
              LET r == warmUpCacheResolve(config, cache, stats, data, ttl, now)
              IN  /\ r.pc = "returned"
                  /\ r.ret = Void
                  /\ r.stats.sets = stats.sets + Len(data)
                  /\ IF Len(data) = 0
                     THEN r.cache = cache /\ r.stats = stats
                     ELSE LET front == SubSeq(data, 1, Len(data) - 1)
                              last == data[Len(data)]
                              f == warmUpCacheResolve(config, cache, stats, front, ttl, now)
                              s == set(config, f.cache, f.stats, last.key, last.data, ttl, now)
                          IN  r.cache = s.cache /\ r.stats = s.stats

\* a warm-up of the one-entry cache with the list a, b has returned: two
\* sets, the first entry evicted by the second, the cache keeps b
WarmUpWitness ==
    /\ \E p \in Procs : task[p].pc = "returned"
    /\ \A p \in Procs : task[p].pc # "loading"
    /\ stats.sets = 2
    /\ stats.evictions = 1
    /\ MapKeys(cache) = {"b"}

(***************************************************************************)
(* C23.  Periodic cleanup sweep: in every reachable state, one run of the  *)
(* cleanup keeps exactly the stored keys with now - timestamp <= ttl (so   *)
(* an entry whose age equals its ttl is kept), each kept entry as it was   *)
(* and in the same order, adds to evictions the number of entries removed, *)
(* sets totalSize to the new size and leaves hits, misses, sets, deletes   *)
(* and hitRate as they are.                                                *)
(***************************************************************************)
CleanupSweepExact ==
    LET s == cleanup(cache, stats, now)
        kept == {k \in MapKeys(cache) :
                    now - MapGet(cache, k).timestamp <= MapGet(cache, k).ttl}
    IN  /\ MapKeys(s.cache) = kept
        /\ \A k \in kept : MapGet(s.cache, k) = MapGet(cache, k)
        /\ \A i, j \in 1..Len(s.cache) :
              i < j => MapIndex(cache, s.cache[i].key) < MapIndex(cache, s.cache[j].key)
        /\ s.stats.evictions = stats.evictions + (Len(cache) - Len(s.cache))
        /\ s.stats.totalSize = size(s.cache)
        /\ s.stats = [stats EXCEPT !.evictions = s.stats.evictions,
                                   !.totalSize = s.stats.totalSize]

\* a sweep has removed one of two entries and kept the other, whose age is
\* exactly its ttl: no read, delete or capacity eviction happened
CleanupSweepWitness ==
    /\ config.maxSize = 2
    /\ stats.sets = 2
    /\ stats.evictions = 1
    /\ stats.misses = 0
    /\ stats.deletes = 0
    /\ stats.totalSize = 1
    /\ Len(cache) = 1
    /\ now - cache[1].timestamp = cache[1].ttl

(***************************************************************************)
(* C25.  TTL applied by set: in every reachable state, for every ttl       *)
(* argument supplied to set(k, v, ttl) the stored entry's ttl is that      *)
(* argument, without a ttl argument it is the cache's defaultTtl, and in   *)
(* both cases the entry has timestamp = lastAccessed = now and             *)
(* accessCount = 1, also when k is overwritten.                            *)
(***************************************************************************)
SetAppliesTtl ==
    \A k \in Keys, v \in SetValues, ttl \in TtlArgs :
        LET s == set(config, cache, stats, k, v, ttl, now)
            e == MapGet(s.cache, k)
        IN  /\ MapHas(s.cache, k)
            /\ e.ttl = IF ttl = NoTtl THEN config.defaultTtl ELSE ttl
            /\ e.timestamp = now
            /\ e.lastAccessed = now
            /\ e.accessCount = 1

(***************************************************************************)
(* C27.  totalSize tracks the store: in every reachable state of a         *)
(* SmartCache the totalSize of the stats equals size().                    *)
(***************************************************************************)
TotalSizeTracksStore == stats.totalSize = size(cache)

(***************************************************************************)
(* C28.  Eviction prefers dead entries: in every reachable state of a      *)
(* cache with maxSize > 0, when set(k, ...) of a key that is not stored    *)
(* finds the store full and the store holds at least one expired entry,    *)
(* the entry removed by the eviction is an expired one.                    *)
(***************************************************************************)
EvictionPrefersDead ==
    \A k \in Keys :
        LET s == set(config, cache, stats, k, "v1", NoTtl, now)
            expired == {x \in MapKeys(cache) : isExpired(MapGet(cache, x), now)}
            evicted == MapKeys(cache) \ MapKeys(s.cache)
        IN  (/\ config.maxSize > 0
             /\ ~MapHas(cache, k)
             /\ Len(cache) >= config.maxSize
             /\ expired # {})
            => evicted # {} /\ evicted \subseteq expired

(***************************************************************************)
(* C24.  Expired entries are eventually purged: while the cleanup timer    *)
(* keeps firing, an entry that is stored with now - timestamp > ttl is     *)
(* eventually no longer in the store (removed, or replaced by a set of its *)
(* key), whether or not a caller ever calls get or has on its key.         *)
(***************************************************************************)
ExpiredEventuallyPurged ==
    \A k \in QueryKeys, ts \in 0..MaxTime :
        (MapHas(cache, k) /\ MapGet(cache, k).timestamp = ts
            /\ isExpired(MapGet(cache, k), now))
        ~> ~(MapHas(cache, k) /\ MapGet(cache, k).timestamp = ts)

\* the sweep alone removed an expired entry: no read, probe purge, delete
\* or capacity eviction can account for the empty store
ExpiredPurgedWitness ==
    /\ stats.sets = 1
    /\ stats.evictions = 1
    /\ stats.misses = 0
    /\ stats.deletes = 0
    /\ stats.totalSize = 0
    /\ Len(cache) = 0

(***************************************************************************)
(* C21.  Product invalidation fan-out: in every reachable state and for    *)
(* every product id, after invalidateProductCaches(id) the product cache   *)
(* (ProductCache) holds no entry under "product:<id>" and no key           *)
(* containing "list", and the search cache (SearchCache) holds no key      *)
(* containing "product".                                                   *)
(***************************************************************************)
ProductFanOut ==
    \A productId \in ProductIds :
        LET hp == invalidateProductCaches(heap, productId)
        IN  /\ ~MapHas(hp[ProductCache].cache, Concat("product:", productId))
            /\ \A k \in MapKeys(hp[ProductCache].cache) : ~includes(k, "list")
            /\ \A k \in MapKeys(hp[SearchCache].cache) : ~includes(k, "product")

\* a recipe has run on a product cache that held a product and a list view
\* and on a search cache that held a product search: the product cache
\* keeps the other product only, the search cache is empty
ProductFanOutWitness ==
    /\ heap[ProductCache].stats.sets = 2
    /\ heap[ProductCache].stats.deletes = 1
    /\ MapKeys(heap[ProductCache].cache) = {"product:2"}
    /\ heap[SearchCache].stats.sets = 1
    /\ heap[SearchCache].stats.deletes = 1
    /\ heap[SearchCache].cache = <<>>
    /\ ~heap[ProductCache].destroyed
    /\ ~heap[SearchCache].destroyed

(***************************************************************************)
(* C29.  Customer invalidation is scoped to one customer: in every         *)
(* reachable state, for every customer id c and every other id d,          *)
(* invalidateCustomerCaches(c) leaves every order-cache entry keyed for    *)
(* customer d (its key ends with "customer:<d>") stored and unchanged.     *)
(***************************************************************************)
KeyedForCustomer(k, d) ==
    LET t == Text(k)
        p == Text(Concat("customer:", d))
    IN  Len(p) <= Len(t) /\ SubSeq(t, Len(t) - Len(p) + 1, Len(t)) = p

CustomerInvalidationScoped ==
    \A c \in CustomerIds, d \in CustomerIds :
        c # d =>
        LET hp == invalidateCustomerCaches(heap, c)
        IN  \A k \in MapKeys(heap[OrderCache].cache) :
                KeyedForCustomer(k, d)
                => /\ MapHas(hp[OrderCache].cache, k)
                   /\ MapGet(hp[OrderCache].cache, k) = MapGet(heap[OrderCache].cache, k)

(***************************************************************************)
(* C30.  Invalidation recipes act on the registered caches: in every       *)
(* reachable registry state, when the cache registered under 'products'    *)
(* holds an entry "product:<id>", that cache is the instance               *)
(* invalidateProductCaches deletes from, and invalidateProductCaches(id)   *)
(* removes the entry.                                                      *)
(***************************************************************************)
RecipesActOnRegistered ==
    \A productId \in ProductIds :
        LET key == Concat("product:", productId)
            reg == caches["products"]
        IN  (reg # NoCache /\ MapHas(heap[reg].cache, key))
            => /\ reg = ProductCache
               /\ ~MapHas(invalidateProductCaches(heap, productId)[reg].cache, key)

(***************************************************************************)
(* C22.  Health classification: in every reachable state, with H the sum   *)
(* of hits and M the sum of misses over the registered caches,             *)
(* generateReport gives the aggregate hit rate 100*H/(H+M) (0 when         *)
(* H+M = 0) and healthStatus 'healthy' iff the rate >= 60, 'warning' iff   *)
(* 30 <= rate < 60, 'critical' iff rate < 30.                              *)
(***************************************************************************)
StatOf(n, f) == IF caches[n] = NoCache THEN 0 ELSE heap[caches[n]].stats[f]

SumOf(f) ==
    StatOf("products", f) + StatOf("customers", f) + StatOf("orders", f)
        + StatOf("search", f)

HealthClassification ==
    LET r == generateReport(caches, heap)
        H == SumOf("hits")
        T == SumOf("hits") + SumOf("misses")
        \* 100 * rate, as an integer fraction of T (0 when T = 0)
        num == IF T > 0 THEN 100 * H ELSE 0
        den == IF T > 0 THEN T ELSE 1
    IN  /\ r.totalHitRate[2] > 0
        /\ r.totalHitRate[1] * 100 * den = num * r.totalHitRate[2]
        /\ r.healthStatus \in {"healthy", "warning", "critical"}
        /\ (r.healthStatus = "healthy") <=> (num >= 60 * den)
        /\ (r.healthStatus = "warning") <=> (num >= 30 * den /\ num < 60 * den)
        /\ (r.healthStatus = "critical") <=> (num < 30 * den)

\* a report was made when 3 of 5 requests were hits: a rate of exactly 60,
\* reported healthy
HealthClassificationWitness ==
    /\ obs # <<>>
    /\ obs[1].totalHitRate = <<3, 5>>
    /\ obs[1].healthStatus = "healthy"
    /\ SumOf("hits") = 3
    /\ SumOf("misses") = 2

(***************************************************************************)
(* C26.  No stale repopulation after invalidation: in every reachable      *)
(* state in which a getWithCache call for key k has its loader pending, if *)
(* k is invalidated (delete(k)) and the loader then resolves to the value  *)
(* v it was fetching, the cache does not hold v under k once the           *)
(* getWithCache call has completed.                                        *)
(***************************************************************************)
NoStaleRepopulation ==
    \A p \in Procs, v \in Values :
        task[p].pc = "loading" =>
        LET k == task[p].key
            d == delete(cache, stats, k)
            r == getWithCacheResolve(config, d.cache, d.stats, k, v, task[p].ttl, now)
        IN  ~(MapHas(r.cache, k) /\ MapGet(r.cache, k).data = v)

====
